---- MODULE Spec2Model ----
(***************************************************************************)
(* Model of drivers/gpu/ion/ion_system_heap.c: the ION system heap, its    *)
(* greedy large-order-first packer, and the per-order page pools it uses.  *)
(*                                                                         *)
(* A page handle is a record [run, obtained, off]: the off-th page of the  *)
(* run the host handed out under identifier run, as a run of order         *)
(* obtained.  page + i is the handle with off + i.                         *)
(***************************************************************************)
EXTENDS Integers, Sequences, FiniteSets, TLC

(* ---------------------------------------------------------------------- *)
(* Bounds of the model                                                     *)
(* ---------------------------------------------------------------------- *)
\* calls of allocate in one run; buffers alive at once; the host allocation
\* attempts of one call that may fail (the first MaxFailIdx), and how many
\* of them do
MaxAllocs == 2
MaxBuffers == 1
MaxFailIdx == 3
MaxFails == 1
\* concurrent use: threads, operations begun by one thread, and the pages a
\* shrink may be asked for
NumThreads == 2
MaxThreadOps == 2
MaxConcOps == 3
MaxShrink == 1
\* calls of the shrinker in the specification of its progress
MaxShrinkCalls == 2

(* ---------------------------------------------------------------------- *)
(* Program constants                                                       *)
(* ---------------------------------------------------------------------- *)
PAGE_SIZE == 4096
orders == <<8, 4, 0>>
num_orders == Len(orders)

ION_FLAG_CACHED == "CACHED"
ION_FLAG_FAULT_USER_MAPPINGS == "FAULT_USER_MAPPINGS"
ION_FLAG_NOZEROED == "NOZEROED"
ION_FLAG_SYNC_FORCE == "SYNC_FORCE"
FlagBits == {ION_FLAG_CACHED, ION_FLAG_FAULT_USER_MAPPINGS,
             ION_FLAG_NOZEROED, ION_FLAG_SYNC_FORCE}

\* request sizes in bytes: 17 pages after padding (64 KiB + 1 byte), and
\* 273 pages (1 MiB + 64 KiB + 4 KiB)
SizeSet == {65537, 1118208}

\* the failure pattern of one allocate call: the set of host allocation
\* attempts (numbered from 1 within the call) that fail.  Either at most
\* MaxFails attempts fail, or the host runs dry at attempt k and every later
\* attempt up to MaxFailIdx fails
FailSets ==
    { F \in SUBSET (1..MaxFailIdx) : Cardinality(F) <= MaxFails }
       \cup { k..MaxFailIdx : k \in 1..MaxFailIdx }
TableOutcomes == {"ok", "kmalloc", "sg_alloc_table"}

\* requests of the threads in concurrent use: one page, and two pages
ConcSizes == {4096, 8192}
ConcFlagSets == {{}, {ION_FLAG_CACHED}, {ION_FLAG_SYNC_FORCE}}
Threads == 1..NumThreads
\* the value of mutex[i] while the shrinker holds it
Shrinker == NumThreads + 1

\* requests of the threads while the shrinker's progress is observed
ShrinkSizes == {4096}
ShrinkFlagSets == {{}}

NULL == [run |-> 0, obtained |-> 0, off |-> 0]

VARIABLES pools, hostOut, nextRun, buffers, last, rt, allocs, badFree, bug,
          page_meta, thr, mutex, shr

vars == <<pools, hostOut, nextRun, buffers, last, rt, allocs, badFree, bug,
          page_meta, thr, mutex, shr>>

(* ---------------------------------------------------------------------- *)
(* Arithmetic helpers                                                      *)
(* ---------------------------------------------------------------------- *)
RECURSIVE Pow2(_)
Pow2(n) == IF n = 0 THEN 1 ELSE 2 * Pow2(n - 1)

PAGE_ALIGN(size) == ((size + PAGE_SIZE - 1) \div PAGE_SIZE) * PAGE_SIZE

order_to_size(order) == PAGE_SIZE * Pow2(order)

\* index of an order in the order set; -1 is the return after BUG()
order_to_index(order) ==
    IF \E i \in 1..num_orders : orders[i] = order
    THEN CHOOSE i \in 1..num_orders : orders[i] = order
    ELSE -1

\* smallest order whose extent covers size bytes
RECURSIVE get_order_from(_, _)
get_order_from(size, o) ==
    IF PAGE_SIZE * Pow2(o) >= size THEN o ELSE get_order_from(size, o + 1)
get_order(size) == get_order_from(size, 0)

ion_buffer_cached(flags) == ION_FLAG_CACHED \in flags
ion_buffer_fault_user_mappings(flags) == ION_FLAG_FAULT_USER_MAPPINGS \in flags
ion_buffer_sync_force(flags) == ION_FLAG_SYNC_FORCE \in flags

PagePlus(page, i) == [page EXCEPT !.off = page.off + i]
PagesOf(page, n) == { PagePlus(page, k) : k \in 0..(n - 1) }

\* residency is a property of the physical frame
PageHighMem(page) == page.run % 2 = 1

(* ---------------------------------------------------------------------- *)
(* Host page allocator.  The host accounts memory in blocks: a block       *)
(* [page, order] is 2^order pages starting at page that were handed out    *)
(* together and are released together; split_page turns one block of       *)
(* order n into 2^n blocks of order 0.                                     *)
(* st is the heap-visible world during one handler:                        *)
(*   pools; out, the blocks acquired from the host and not yet released;   *)
(*   next, the identifier of the next run the host hands out; n, the host  *)
(*   allocation attempts made by this call; bad (a release of something    *)
(*   that is no block of the host's); bug (BUG() was reached: the handler  *)
(*   goes no further); log, the run allocations alloc_largest_available    *)
(*   attempted in this call, each [order, ok, size, max_order].            *)
(* ---------------------------------------------------------------------- *)
alloc_pages(st, order, F) ==
    IF (st.n + 1) \in F
    THEN [page |-> NULL, st |-> [st EXCEPT !.n = st.n + 1]]
    ELSE LET pg == [run |-> st.next, obtained |-> order, off |-> 0]
         IN [page |-> pg,
             st |-> [st EXCEPT
                       !.n = st.n + 1,
                       !.next = st.next + 1,
                       !.out = st.out \cup {[page |-> pg, order |-> order]}]]

split_page(st, page, order) ==
    IF order > 0 /\ [page |-> page, order |-> order] \in st.out
    THEN [st EXCEPT !.out = (st.out \ {[page |-> page, order |-> order]})
                              \cup { [page |-> PagePlus(page, k), order |-> 0] :
                                       k \in 0..(Pow2(order) - 1) }]
    ELSE st

__free_pages(st, page, order) ==
    IF [page |-> page, order |-> order] \in st.out
    THEN [st EXCEPT !.out = st.out \ {[page |-> page, order |-> order]}]
    ELSE [st EXCEPT !.bad = TRUE]

__free_page(st, page) == __free_pages(st, page, 0)

(* ---------------------------------------------------------------------- *)
(* Page pool (one per order): two LIFO stacks with their counters.  A      *)
(* stack entry is [page, zero]; zero records that the run's bytes are      *)
(* known to be all zero.                                                   *)
(* ---------------------------------------------------------------------- *)
EmptyPool == [high_stack |-> <<>>, low_stack |-> <<>>,
              high_count |-> 0, low_count |-> 0]

ion_page_pool_alloc(st, idx, F) ==
    LET pool == st.pools[idx] IN
    IF pool.high_count > 0
    THEN [page |-> Head(pool.high_stack).page,
          zero |-> Head(pool.high_stack).zero,
          served |-> TRUE,
          st |-> [st EXCEPT !.pools[idx].high_stack = Tail(pool.high_stack),
                            !.pools[idx].high_count = pool.high_count - 1]]
    ELSE IF pool.low_count > 0
    THEN [page |-> Head(pool.low_stack).page,
          zero |-> Head(pool.low_stack).zero,
          served |-> TRUE,
          st |-> [st EXCEPT !.pools[idx].low_stack = Tail(pool.low_stack),
                            !.pools[idx].low_count = pool.low_count - 1]]
    ELSE LET r == alloc_pages(st, orders[idx], F)
         IN [page |-> r.page, zero |-> FALSE, served |-> FALSE, st |-> r.st]

ion_page_pool_free(st, idx, page, zero) ==
    LET pool == st.pools[idx]
        e == [page |-> page, zero |-> zero]
    IN IF PageHighMem(page)
       THEN [st EXCEPT !.pools[idx].high_stack = <<e>> \o pool.high_stack,
                       !.pools[idx].high_count = pool.high_count + 1]
       ELSE [st EXCEPT !.pools[idx].low_stack = <<e>> \o pool.low_stack,
                       !.pools[idx].low_count = pool.low_count + 1]

(* ---------------------------------------------------------------------- *)
(* System heap: run allocation and release                                 *)
(* ---------------------------------------------------------------------- *)
\* a run allocation that goes to the host whatever the buffer's cacheability
alloc_buffer_page_nopool(st, flags, order, F) ==
    LET a == alloc_pages(st, order, F)
        r == [page |-> a.page, zero |-> FALSE, served |-> FALSE, st |-> a.st]
    IN IF r.page = NULL
       THEN r
       ELSE IF ion_buffer_fault_user_mappings(flags)
            THEN [r EXCEPT !.st = split_page(r.st, r.page, order)]
            ELSE r

alloc_buffer_page(st, flags, order, F) ==
    LET idx == order_to_index(order)
        r == IF ~ion_buffer_cached(flags)
             THEN ion_page_pool_alloc(st, idx, F)
             ELSE LET a == alloc_pages(st, order, F)
                  IN [page |-> a.page, zero |-> FALSE, served |-> FALSE,
                      st |-> a.st]
    IN IF r.page = NULL
       THEN r
       ELSE IF ion_buffer_fault_user_mappings(flags)
            THEN [r EXCEPT !.st = split_page(r.st, r.page, order)]
            ELSE r

\* for (i = lo; i <= hi; i++) __free_page(page + i), evaluated by halves
RECURSIVE free_split_pages(_, _, _, _)
free_split_pages(st, page, lo, hi) ==
    IF lo > hi THEN st
    ELSE IF lo = hi THEN __free_page(st, PagePlus(page, lo))
    ELSE LET mid == (lo + hi) \div 2
             done == free_split_pages(st, page, lo, mid)
         IN IF done.bug THEN done
            ELSE free_split_pages(done, page, mid + 1, hi)

\* a release that takes the pool path whatever the buffer's cacheability
free_buffer_page_pooled(st, flags, page, order, zero) ==
    LET idx == order_to_index(order)
    IN IF idx = -1
       THEN [st EXCEPT !.bug = TRUE]
       ELSE ion_page_pool_free(st, idx, page, zero)

free_buffer_page(st, flags, page, order, zero) ==
    IF ~ion_buffer_cached(flags)
    THEN LET idx == order_to_index(order)
         IN IF idx = -1
            THEN [st EXCEPT !.bug = TRUE]
            ELSE ion_page_pool_free(st, idx, page, zero)
    ELSE IF ion_buffer_fault_user_mappings(flags)
    THEN free_split_pages(st, page, 0, Pow2(order) - 1)
    ELSE __free_pages(st, page, order)

\* a walk over the order set that does not compare the order's extent with
\* the size still wanted
RECURSIVE alloc_largest_nosize(_, _, _, _, _, _, _)
alloc_largest_nosize(st, flags, size, max_order, F, i, from_pool) ==
    IF i > num_orders
    THEN [page |-> NULL, order |-> 0, from_pool |-> FALSE, served |-> FALSE,
          zero |-> FALSE, st |-> st]
    ELSE IF max_order < orders[i]
    THEN alloc_largest_nosize(st, flags, size, max_order, F, i + 1, from_pool)
    ELSE LET pool == st.pools[order_to_index(orders[i])]
             fp == IF ~ion_buffer_cached(flags)
                      /\ (pool.high_count > 0 \/ pool.low_count > 0)
                   THEN TRUE
                   ELSE from_pool
             r == alloc_buffer_page(st, flags, orders[i], F)
         IN IF r.page = NULL
            THEN alloc_largest_nosize(r.st, flags, size, max_order, F, i + 1, fp)
            ELSE [page |-> r.page, order |-> orders[i], from_pool |-> fp,
                  served |-> r.served, zero |-> r.zero, st |-> r.st]

\* a walk that gives up at the first run allocation that fails
RECURSIVE alloc_largest_nofallback(_, _, _, _, _, _, _)
alloc_largest_nofallback(st, flags, size, max_order, F, i, from_pool) ==
    IF i > num_orders
    THEN [page |-> NULL, order |-> 0, from_pool |-> FALSE, served |-> FALSE,
          zero |-> FALSE, st |-> st]
    ELSE IF size < order_to_size(orders[i]) \/ max_order < orders[i]
    THEN alloc_largest_nofallback(st, flags, size, max_order, F, i + 1,
                                  from_pool)
    ELSE LET r == alloc_buffer_page(st, flags, orders[i], F)
             logged == [r.st EXCEPT !.log =
                          Append(@, [order |-> orders[i], ok |-> r.page # NULL,
                                     size |-> size, max_order |-> max_order])]
         IN IF r.page = NULL
            THEN [page |-> NULL, order |-> 0, from_pool |-> FALSE,
                  served |-> FALSE, zero |-> FALSE, st |-> logged]
            ELSE [page |-> r.page, order |-> orders[i], from_pool |-> from_pool,
                  served |-> r.served, zero |-> r.zero, st |-> logged]

\* the walk over the order set; from_pool is set once and never cleared
RECURSIVE alloc_largest_from(_, _, _, _, _, _, _)
alloc_largest_from(st, flags, size, max_order, F, i, from_pool) ==
    IF i > num_orders
    THEN [page |-> NULL, order |-> 0, from_pool |-> FALSE, served |-> FALSE,
          zero |-> FALSE, st |-> st]
    ELSE IF size < order_to_size(orders[i]) \/ max_order < orders[i]
    THEN alloc_largest_from(st, flags, size, max_order, F, i + 1, from_pool)
    ELSE LET pool == st.pools[order_to_index(orders[i])]
             fp == IF ~ion_buffer_cached(flags)
                      /\ (pool.high_count > 0 \/ pool.low_count > 0)
                   THEN TRUE
                   ELSE from_pool
             r == alloc_buffer_page(st, flags, orders[i], F)
             logged == [r.st EXCEPT !.log =
                          Append(@, [order |-> orders[i], ok |-> r.page # NULL,
                                     size |-> size, max_order |-> max_order])]
         IN IF r.page = NULL
            THEN alloc_largest_from(logged, flags, size, max_order, F, i + 1, fp)
            ELSE [page |-> r.page, order |-> orders[i], from_pool |-> fp,
                  served |-> r.served, zero |-> r.zero, st |-> logged]

\* ion_page_order(page) = orders[i] and ion_set_from_pool(page) on the run
\* r that the walk returns: the order goes into page->private and the
\* label into the page's flag bit, which is set but never cleared here; the
\* label the rest of the call reads (ion_get_from_pool) is that bit
mark_run(r) ==
    IF r.page = NULL THEN r
    ELSE LET bits == IF r.from_pool
                     THEN r.st.meta.frompool \cup {r.page}
                     ELSE r.st.meta.frompool
             priv == { x \in r.st.meta.private : x[1] # r.page }
                        \cup (IF r.order # 0 THEN {<<r.page, r.order>>}
                              ELSE {})
         IN [r EXCEPT !.from_pool = r.page \in bits,
                      !.st = [r.st EXCEPT !.meta = [frompool |-> bits,
                                                    private |-> priv]]]

\* a walk that starts at the second order of the set
alloc_largest_skipfirst(st, flags, size, max_order, F) ==
    mark_run(alloc_largest_from(st, flags, size, max_order, F, 2, FALSE))

alloc_largest_available(st, flags, size, max_order, F) ==
    mark_run(alloc_largest_from(st, flags, size, max_order, F, 1, FALSE))

\* an iteration of the packing loop that leaves max_order as it was
pack_iteration_nocap(L, flags, F) ==
    IF L.pc # "loop" THEN L
    ELSE IF L.size_remaining <= 0 THEN [L EXCEPT !.pc = "packed"]
    ELSE LET r == alloc_largest_available(L.st, flags, L.size_remaining,
                                          L.max_order, F)
         IN IF r.page = NULL
            THEN [L EXCEPT !.st = r.st, !.pc = "err",
                           !.trace = Append(@, L.size_remaining)]
            ELSE [L EXCEPT
                    !.st = r.st,
                    !.trace = Append(@, L.size_remaining),
                    !.pages = Append(L.pages,
                                     [page |-> r.page, order |-> r.order,
                                      from_pool |-> r.from_pool,
                                      served |-> r.served, zero |-> r.zero]),
                    !.size_remaining = L.size_remaining
                                         - Pow2(r.order) * PAGE_SIZE]

\* an iteration of the packing loop that does not count a single page
\* against size_remaining
pack_iteration_stuck(L, flags, F) ==
    IF L.pc # "loop" THEN L
    ELSE IF L.size_remaining <= 0 THEN [L EXCEPT !.pc = "packed"]
    ELSE LET r == alloc_largest_available(L.st, flags, L.size_remaining,
                                          L.max_order, F)
         IN IF r.page = NULL
            THEN [L EXCEPT !.st = r.st, !.pc = "err",
                           !.trace = Append(@, L.size_remaining)]
            ELSE [L EXCEPT
                    !.st = r.st,
                    !.trace = Append(@, L.size_remaining),
                    !.pages = Append(L.pages,
                                     [page |-> r.page, order |-> r.order,
                                      from_pool |-> r.from_pool,
                                      served |-> r.served, zero |-> r.zero]),
                    !.size_remaining = IF r.order = 0 THEN L.size_remaining
                                       ELSE L.size_remaining
                                              - Pow2(r.order) * PAGE_SIZE,
                    !.max_order = r.order]

\* One iteration of the packing loop of ion_system_heap_allocate.  L holds
\* the loop's variables: st, size_remaining, max_order, the list pages (each
\* run [page, order, from_pool] plus what is known of where it came from)
\* and pc, which is "loop" until the loop exits to "packed" or to "err";
\* trace lists size_remaining as each execution of the loop body found it.
pack_iteration(L, flags, F) ==
    IF L.pc # "loop" THEN L
    ELSE IF L.size_remaining <= 0 THEN [L EXCEPT !.pc = "packed"]
    ELSE LET r == alloc_largest_available(L.st, flags, L.size_remaining,
                                          L.max_order, F)
         IN IF r.page = NULL
            THEN [L EXCEPT !.st = r.st, !.pc = "err",
                           !.trace = Append(@, L.size_remaining)]
            ELSE [L EXCEPT
                    !.st = r.st,
                    !.trace = Append(@, L.size_remaining),
                    !.pages = Append(L.pages,
                                     [page |-> r.page, order |-> r.order,
                                      from_pool |-> r.from_pool,
                                      served |-> r.served, zero |-> r.zero]),
                    !.size_remaining = L.size_remaining
                                         - Pow2(r.order) * PAGE_SIZE,
                    !.max_order = r.order]

\* up to 2^k iterations of the loop
RECURSIVE pack_iterations(_, _, _, _)
pack_iterations(L, flags, F, k) ==
    IF k = 0 THEN pack_iteration(L, flags, F)
    ELSE LET M == pack_iterations(L, flags, F, k - 1)
         IN IF M.pc # "loop" THEN M
            ELSE pack_iterations(M, flags, F, k - 1)

\* the while loop: every iteration that does not exit takes at least one
\* page off size_remaining, so 2^k > pages iterations reach the exit
pack_loop(st, flags, size_remaining, max_order, F) ==
    pack_iterations([st |-> st, size_remaining |-> size_remaining,
                     max_order |-> max_order, pages |-> <<>>, pc |-> "loop",
                     trace |-> <<>>],
                    flags, F, get_order(size_remaining) + 1)

\* a list walk that leaves the pages' flag bit and page->private alone
clear_runs_none(st, pages) == st

\* ion_clear_from_pool(page) and ion_page_order(page) = 0 for every run of
\* the list, as both list walks of ion_system_heap_allocate do
clear_runs(st, pages) ==
    LET heads == { pages[k].page : k \in 1..Len(pages) }
    IN [st EXCEPT !.meta =
          [frompool |-> @.frompool \ heads,
           private |-> { x \in @.private : x[1] \notin heads }]]

\* an err: label that drops the list without releasing the runs
unwind_leak(st, flags, pages, lo, hi) == st

\* the err: label, over pages[lo..hi] in list order, evaluated by halves
RECURSIVE unwind(_, _, _, _, _)
unwind(st, flags, pages, lo, hi) ==
    IF lo > hi THEN st
    ELSE IF lo = hi
    THEN free_buffer_page(st, flags, pages[lo].page, pages[lo].order,
                          pages[lo].zero)
    ELSE LET mid == (lo + hi) \div 2
             done == unwind(st, flags, pages, lo, mid)
         IN IF done.bug THEN done
            ELSE unwind(done, flags, pages, mid + 1, hi)

\* entries of a split run that all name the run's first page, each at its
\* own byte offset
sg_entries_offsets(flags, run) ==
    IF ion_buffer_fault_user_mappings(flags)
    THEN [i \in 1..Pow2(run.order) |->
            [page |-> run.page, length |-> PAGE_SIZE,
             offset |-> (i - 1) * PAGE_SIZE]]
    ELSE << [page |-> run.page, length |-> Pow2(run.order) * PAGE_SIZE,
             offset |-> 0] >>

\* scatter/gather entries of one run
sg_entries(flags, run) ==
    IF ion_buffer_fault_user_mappings(flags)
    THEN [i \in 1..Pow2(run.order) |->
            [page |-> PagePlus(run.page, i - 1), length |-> PAGE_SIZE,
             offset |-> 0]]
    ELSE << [page |-> run.page, length |-> Pow2(run.order) * PAGE_SIZE,
             offset |-> 0] >>

\* entries written from the tail of the list to its head
RECURSIVE fill_table_reversed(_, _, _, _)
fill_table_reversed(flags, pages, lo, hi) ==
    IF lo > hi THEN <<>>
    ELSE IF lo = hi THEN sg_entries(flags, pages[lo])
    ELSE LET mid == (lo + hi) \div 2
         IN fill_table_reversed(flags, pages, mid + 1, hi)
              \o fill_table_reversed(flags, pages, lo, mid)

\* the entries written for pages[lo..hi], in list order
RECURSIVE fill_table(_, _, _, _)
fill_table(flags, pages, lo, hi) ==
    IF lo > hi THEN <<>>
    ELSE IF lo = hi THEN sg_entries(flags, pages[lo])
    ELSE LET mid == (lo + hi) \div 2
         IN fill_table(flags, pages, lo, mid)
              \o fill_table(flags, pages, mid + 1, hi)

sg_nents(flags, size, pages) ==
    IF ion_buffer_fault_user_mappings(flags)
    THEN PAGE_ALIGN(size) \div PAGE_SIZE
    ELSE Len(pages)

\* a conjunction computed as a disjunction
any_page_from_pool(pages) == \E k \in 1..Len(pages) : pages[k].from_pool

all_pages_from_pool(pages) == \A k \in 1..Len(pages) : pages[k].from_pool

\* a tail that latches readiness first and syncs afterwards
tail_events_latchfirst(flags, pages, filled) ==
    (IF all_pages_from_pool(pages) \/ ion_buffer_sync_force(flags)
     THEN << [ev |-> "ready", filled |-> filled] >> ELSE << >>)
    \o (IF ion_buffer_sync_force(flags)
        THEN << [ev |-> "sync", filled |-> filled] >> ELSE << >>)
    \o << [ev |-> "priv_virt", filled |-> filled] >>

\* the steps of the tail of a successful allocate that others observe, in
\* program order: the DMA sync, the latch of readiness, the store of the
\* table pointer; filled is the number of entries written when the step runs
tail_events(flags, pages, filled) ==
    (IF ion_buffer_sync_force(flags)
     THEN << [ev |-> "sync", filled |-> filled] >> ELSE << >>)
    \o (IF all_pages_from_pool(pages) \/ ion_buffer_sync_force(flags)
        THEN << [ev |-> "ready", filled |-> filled] >> ELSE << >>)
    \o << [ev |-> "priv_virt", filled |-> filled] >>

\* a tail of allocate that publishes the table pointer before it tests the
\* result of sg_alloc_table
allocate_after_pack_early(p, size, flags, tf) ==
    IF p.pc = "err" \/ tf # "ok"
    THEN [ret |-> "ENOMEM",
          st |-> unwind(clear_runs(p.st, p.pages), flags, p.pages, 1,
                       Len(p.pages)),
          table |-> [nents |-> IF tf = "sg_alloc_table"
                               THEN sg_nents(flags, size, p.pages) ELSE 0,
                     sgl |-> <<>>],
          ready |-> FALSE, synced |-> FALSE, pages |-> p.pages,
          events |-> << >>]
    ELSE [ret |-> "0", st |-> clear_runs(p.st, p.pages),
          table |-> [nents |-> sg_nents(flags, size, p.pages),
                     sgl |-> fill_table(flags, p.pages, 1, Len(p.pages))],
          ready |-> all_pages_from_pool(p.pages)
                       \/ ion_buffer_sync_force(flags),
          synced |-> ion_buffer_sync_force(flags),
          pages |-> p.pages,
          events |-> tail_events(flags, p.pages,
                                 Len(fill_table(flags, p.pages, 1,
                                                Len(p.pages))))]

\* ion_system_heap_allocate from the exit of the packing loop on: p is the
\* loop's final state, tf the outcome of the two table allocations
allocate_after_pack(p, size, flags, tf) ==
    IF p.pc = "err" \/ tf # "ok"
    THEN [ret |-> "ENOMEM",
          st |-> unwind(clear_runs(p.st, p.pages), flags, p.pages, 1,
                       Len(p.pages)),
          table |-> [nents |-> 0, sgl |-> <<>>], ready |-> FALSE,
          synced |-> FALSE, pages |-> p.pages, events |-> << >>]
    ELSE [ret |-> "0", st |-> clear_runs(p.st, p.pages),
          table |-> [nents |-> sg_nents(flags, size, p.pages),
                     sgl |-> fill_table(flags, p.pages, 1, Len(p.pages))],
          ready |-> all_pages_from_pool(p.pages)
                       \/ ion_buffer_sync_force(flags),
          synced |-> ion_buffer_sync_force(flags),
          pages |-> p.pages,
          events |-> tail_events(flags, p.pages,
                                 Len(fill_table(flags, p.pages, 1,
                                                Len(p.pages))))]

ion_system_heap_map_dma(buffer) == buffer.priv_virt

\* a for_each_sg that passes an entry's page count where its order belongs
RECURSIVE free_table_pagecount(_, _, _, _, _, _)
free_table_pagecount(st, flags, table, zeroed, lo, hi) ==
    IF lo > hi THEN st
    ELSE IF lo = hi
    THEN free_buffer_page(st, flags, table.sgl[lo].page,
                          table.sgl[lo].length \div PAGE_SIZE, zeroed)
    ELSE LET mid == (lo + hi) \div 2
             done == free_table_pagecount(st, flags, table, zeroed, lo, mid)
         IN IF done.bug THEN done
            ELSE free_table_pagecount(done, flags, table, zeroed, mid + 1, hi)

\* for_each_sg over entries lo..hi, evaluated by halves
RECURSIVE free_table(_, _, _, _, _, _)
free_table(st, flags, table, zeroed, lo, hi) ==
    IF lo > hi THEN st
    ELSE IF lo = hi
    THEN free_buffer_page(st, flags, table.sgl[lo].page,
                          get_order(table.sgl[lo].length), zeroed)
    ELSE LET mid == (lo + hi) \div 2
             done == free_table(st, flags, table, zeroed, lo, mid)
         IN IF done.bug THEN done
            ELSE free_table(done, flags, table, zeroed, mid + 1, hi)

\* ion_heap_buffer_zero runs for non-cached buffers without NOZEROED
buffer_zeroed(flags) ==
    ~ion_buffer_cached(flags) /\ ION_FLAG_NOZEROED \notin flags

ion_system_heap_free(st, buffer) ==
    free_table(st, buffer.flags, ion_system_heap_map_dma(buffer),
               buffer_zeroed(buffer.flags), 1,
               ion_system_heap_map_dma(buffer).nents)

(* ---------------------------------------------------------------------- *)
(* State machine: sequential use of one heap                               *)
(* ---------------------------------------------------------------------- *)
NoBuffer == [live |-> FALSE, size |-> 0, flags |-> {},
             priv_virt |-> [nents |-> 0, sgl |-> <<>>],
             ready |-> FALSE, synced |-> FALSE, served |-> <<>>]

Counts(pp) == [i \in 1..num_orders |-> pp[i].high_count + pp[i].low_count]
ZeroCounts == [i \in 1..num_orders |-> 0]

World == [pools |-> pools, out |-> hostOut, next |-> nextRun, n |-> 0,
          bad |-> badFree, bug |-> bug, log |-> <<>>, meta |-> page_meta]

NoTable == [nents |-> 0, sgl |-> <<>>]

IdleThread == [pc |-> "idle", flags |-> {}, size |-> 0, size_remaining |-> 0,
               max_order |-> 0, i |-> 0, from_pool |-> FALSE, pages |-> <<>>,
               k |-> 0, fails |-> 0, ops |-> 0,
               buf |-> [live |-> FALSE, flags |-> {}, size |-> 0,
                        priv_virt |-> NoTable, ready |-> FALSE,
                        served |-> <<>>]]

\* no page has PG_ion_frompool set or a non-zero page->private
NoMeta == [frompool |-> {}, private |-> {}]

\* the host's shrinker outside ion_page_pool_shrink
IdleShrinker == [pc |-> "idle", pool |-> 0, target |-> 0, calls |-> 0]

Init ==
    /\ pools = [i \in 1..num_orders |-> EmptyPool]
    /\ hostOut = {}
    /\ nextRun = 1
    /\ buffers = [b \in 1..MaxBuffers |-> NoBuffer]
    /\ last = [op |-> "none", buf |-> 0, size |-> 0, flags |-> {},
               ret |-> "0", failed |-> FALSE, exit |-> "none", log |-> <<>>, trace |-> <<>>,
                runs |-> <<>>, events |-> <<>>]
    /\ rt = [phase |-> 0, counts |-> ZeroCounts, anyfail |-> FALSE]
    /\ allocs = 0
    /\ badFree = FALSE
    /\ bug = FALSE
    /\ page_meta = NoMeta
    /\ thr = [t \in Threads |-> IdleThread]
    /\ mutex = [i \in 1..num_orders |-> 0]
    /\ shr = IdleShrinker

Allocate(b, size, flags, F) ==
    /\ allocs < MaxAllocs
    /\ ~buffers[b].live
    /\ \A c \in 1..(b - 1) : buffers[c].live
    /\ \E p \in {pack_loop(World, flags, PAGE_ALIGN(size), orders[1], F)} :
       \E tf \in TableOutcomes :
       \E r \in {allocate_after_pack(p, size, flags, tf)} :
          LET failed == \E k \in F : k <= r.st.n IN
          /\ pools' = r.st.pools
          /\ hostOut' = r.st.out
          /\ nextRun' = r.st.next
          /\ badFree' = r.st.bad
          /\ bug' = r.st.bug
          /\ page_meta' = r.st.meta
          /\ buffers' = IF r.ret = "0"
                        THEN [buffers EXCEPT ![b] =
                                [live |-> TRUE, size |-> size, flags |-> flags,
                                 priv_virt |-> r.table, ready |-> r.ready,
                                 synced |-> r.synced,
                                 served |-> [k \in 1..Len(r.pages) |->
                                               r.pages[k].served]]]
                        ELSE [buffers EXCEPT ![b] =
                                [NoBuffer EXCEPT !.priv_virt = r.table,
                                                 !.ready = r.ready,
                                                 !.synced = r.synced]]
          /\ last' = [op |-> "allocate", buf |-> b, size |-> size,
                      flags |-> flags, ret |-> r.ret, failed |-> failed,
                      exit |-> p.pc, log |-> p.st.log, trace |-> p.trace,
                      runs |-> [k \in 1..Len(p.pages) |->
                                  [page |-> p.pages[k].page,
                                   order |-> p.pages[k].order,
                                   from_pool |-> p.pages[k].from_pool]],
                      events |-> r.events]
          /\ rt' = IF r.ret # "0"
                   THEN [phase |-> 0, counts |-> ZeroCounts, anyfail |-> FALSE]
                   ELSE IF rt.phase = 2 /\ last.size = size /\ last.flags = flags
                   THEN [rt EXCEPT !.phase = 3, !.anyfail = rt.anyfail \/ failed]
                   ELSE [phase |-> 1, counts |-> ZeroCounts, anyfail |-> failed]
    /\ allocs' = allocs + 1
    /\ UNCHANGED <<thr, mutex, shr>>

Free(b) ==
    /\ buffers[b].live
    /\ \E st \in {ion_system_heap_free(World, buffers[b])} :
          /\ pools' = st.pools
          /\ hostOut' = st.out
          /\ nextRun' = st.next
          /\ badFree' = st.bad
          /\ bug' = st.bug
          /\ page_meta' = st.meta
          /\ rt' = IF rt.phase = 1 /\ last.buf = b
                   THEN [rt EXCEPT !.phase = 2, !.counts = Counts(st.pools)]
                   ELSE IF rt.phase = 3 /\ last.buf = b
                   THEN [rt EXCEPT !.phase = 4]
                   ELSE [phase |-> 0, counts |-> ZeroCounts, anyfail |-> FALSE]
    /\ buffers' = [buffers EXCEPT ![b] = NoBuffer]
    /\ last' = [op |-> "free", buf |-> b, size |-> buffers[b].size,
                flags |-> buffers[b].flags, ret |-> "0", failed |-> FALSE,
                exit |-> "none", log |-> <<>>, trace |-> <<>>,
                runs |-> <<>>, events |-> <<>>]
    /\ UNCHANGED <<allocs, thr, mutex, shr>>

Next ==
    \/ \E b \in 1..MaxBuffers, size \in SizeSet, flags \in SUBSET FlagBits,
          F \in FailSets :
          Allocate(b, size, flags, F)
    \/ \E b \in 1..MaxBuffers : Free(b)

Spec == Init /\ [][Next]_vars

(* ---------------------------------------------------------------------- *)
(* State machine: concurrent use.  Each thread runs ion_system_heap_allocate *)
(* and ion_system_heap_free one step at a time; a step is a stretch of code  *)
(* that touches the shared pools at most once.  The pool operations take     *)
(* the pool's mutex for their own duration, so a step that calls one waits   *)
(* until the mutex is free.  mutex[i] is 0 or the thread that holds it.      *)
(* ---------------------------------------------------------------------- *)
PoolCount(i) == pools[i].high_count + pools[i].low_count

\* ion_page_pool_shrink: entries leave the low stack first, then the high
\* stack, each released to the host as a run of the pool's order, until
\* target pages are reclaimed or both stacks are empty
RECURSIVE ion_page_pool_shrink(_, _, _, _)
ion_page_pool_shrink(st, idx, target, reclaimed) ==
    LET pool == st.pools[idx] IN
    IF reclaimed >= target \/ (pool.low_count = 0 /\ pool.high_count = 0)
    THEN st
    ELSE IF pool.low_count > 0
    THEN ion_page_pool_shrink(
             __free_pages([st EXCEPT
                             !.pools[idx].low_stack = Tail(pool.low_stack),
                             !.pools[idx].low_count = pool.low_count - 1],
                          Head(pool.low_stack).page, orders[idx]),
             idx, target, reclaimed + Pow2(orders[idx]))
    ELSE ion_page_pool_shrink(
             __free_pages([st EXCEPT
                             !.pools[idx].high_stack = Tail(pool.high_stack),
                             !.pools[idx].high_count = pool.high_count - 1],
                          Head(pool.high_stack).page, orders[idx]),
             idx, target, reclaimed + Pow2(orders[idx]))

\* the pool mutex a release of (flags, order) needs: 0 when it needs none
MutexOfFree(flags, order) ==
    IF ion_buffer_cached(flags) \/ order_to_index(order) = -1
    THEN 0
    ELSE order_to_index(order)

SetWorld(st) ==
    /\ pools' = st.pools
    /\ hostOut' = st.out
    /\ nextRun' = st.next
    /\ badFree' = st.bad
    /\ bug' = st.bug
    /\ page_meta' = st.meta

\* the head of the for loop over orders and its two continue tests, up to
\* the first statement that touches a pool or the host; th is the thread
RECURSIVE for_orders(_)
for_orders(th) ==
    IF th.i > num_orders
    THEN [th EXCEPT !.pc = "err"]
    ELSE IF th.size_remaining < order_to_size(orders[th.i])
            \/ th.max_order < orders[th.i]
    THEN for_orders([th EXCEPT !.i = th.i + 1])
    ELSE IF ~ion_buffer_cached(th.flags)
    THEN [th EXCEPT !.pc = "lock"]
    ELSE [th EXCEPT !.pc = "alloc_page"]

\* the test of the packing loop and the entry of alloc_largest_available
loop_head(th) ==
    IF th.size_remaining > 0
    THEN for_orders([th EXCEPT !.i = 1, !.from_pool = FALSE])
    ELSE [th EXCEPT !.pc = "table"]

RECURSIVE OpsOf(_)
OpsOf(t) == IF t = 0 THEN 0 ELSE thr[t].ops + OpsOf(t - 1)

\* operations begun so far by all threads
OpsBegun == OpsOf(NumThreads)

\* entry of ion_system_heap_allocate up to the first pool or host access
T_Allocate(t, size, flags) ==
    /\ thr[t].pc = "idle"
    /\ ~thr[t].buf.live
    /\ thr[t].ops < MaxThreadOps
    /\ OpsBegun < MaxConcOps
    /\ thr' = [thr EXCEPT ![t] =
                 loop_head([@ EXCEPT !.flags = flags, !.size = size,
                                     !.size_remaining = PAGE_ALIGN(size),
                                     !.max_order = orders[1], !.pages = <<>>,
                                     !.fails = 0, !.ops = @ + 1])]
    /\ UNCHANGED <<pools, hostOut, nextRun, badFree, bug, page_meta, mutex,
                   buffers, last, rt, allocs, shr>>

\* mutex_lock(&pool->mutex)
T_Lock(t) ==
    /\ thr[t].pc = "lock"
    /\ mutex[order_to_index(orders[thr[t].i])] = 0
    /\ mutex' = [mutex EXCEPT ![order_to_index(orders[thr[t].i])] = t]
    /\ thr' = [thr EXCEPT ![t].pc = "inspect"]
    /\ UNCHANGED <<pools, hostOut, nextRun, badFree, bug, page_meta,
                   buffers, last, rt, allocs, shr>>

\* a counter test that leaves the mutex locked
T_InspectKeep(t) ==
    /\ thr[t].pc = "inspect"
    /\ mutex[order_to_index(orders[thr[t].i])] = t
    /\ thr' = [thr EXCEPT ![t] =
                 [@ EXCEPT !.pc = "alloc_page",
                           !.from_pool =
                              IF PoolCount(order_to_index(orders[thr[t].i])) > 0
                              THEN TRUE ELSE @]]
    /\ UNCHANGED <<pools, hostOut, nextRun, badFree, bug, page_meta, mutex,
                   buffers, last, rt, allocs, shr>>

\* the counter test and mutex_unlock
T_Inspect(t) ==
    /\ thr[t].pc = "inspect"
    /\ mutex[order_to_index(orders[thr[t].i])] = t
    /\ thr' = [thr EXCEPT ![t] =
                 [@ EXCEPT !.pc = "alloc_page",
                           !.from_pool =
                              IF PoolCount(order_to_index(orders[thr[t].i])) > 0
                              THEN TRUE ELSE @]]
    /\ mutex' = [mutex EXCEPT ![order_to_index(orders[thr[t].i])] = 0]
    /\ UNCHANGED <<pools, hostOut, nextRun, badFree, bug, page_meta,
                   buffers, last, rt, allocs, shr>>

\* alloc_buffer_page, the rest of the for body, the packing loop's body after
\* the call, and the code up to the next pool or host access; hostfails says
\* whether a host allocation made now fails
T_AllocPage(t, hostfails) ==
    /\ thr[t].pc = "alloc_page"
    /\ ion_buffer_cached(thr[t].flags)
          \/ mutex[order_to_index(orders[thr[t].i])] = 0
    /\ hostfails => thr[t].fails < MaxFails
    /\ \E a \in {alloc_buffer_page(World, thr[t].flags, orders[thr[t].i],
                                   IF hostfails THEN {1} ELSE {})} :
       \E r \in {mark_run([page |-> a.page, order |-> orders[thr[t].i],
                           from_pool |-> thr[t].from_pool,
                           served |-> a.served, zero |-> a.zero,
                           st |-> a.st])} :
          /\ hostfails => r.page = NULL
          /\ SetWorld(r.st)
          /\ thr' = [thr EXCEPT ![t] =
                       IF r.page = NULL
                       THEN for_orders([@ EXCEPT !.i = @ + 1, !.fails = @ + 1])
                       ELSE loop_head([@ EXCEPT
                               !.pages = Append(@,
                                   [page |-> r.page, order |-> orders[thr[t].i],
                                    from_pool |-> r.from_pool,
                                    served |-> r.served, zero |-> r.zero]),
                               !.size_remaining =
                                   @ - Pow2(orders[thr[t].i]) * PAGE_SIZE,
                               !.max_order = orders[thr[t].i]])]
    /\ UNCHANGED <<mutex, buffers, last, rt, allocs, shr>>

\* from the exit of the packing loop to return 0, or to err:
T_Table(t, tf) ==
    /\ thr[t].pc = "table"
    /\ thr' = [thr EXCEPT ![t] =
                 IF tf # "ok"
                 THEN [@ EXCEPT !.pc = "err"]
                 ELSE [@ EXCEPT
                         !.pc = "idle", !.pages = <<>>,
                         !.buf = [live |-> TRUE, flags |-> thr[t].flags,
                                  size |-> thr[t].size,
                                  priv_virt |->
                                     [nents |-> sg_nents(thr[t].flags,
                                                   thr[t].size, thr[t].pages),
                                      sgl |-> fill_table(thr[t].flags,
                                                 thr[t].pages, 1,
                                                 Len(thr[t].pages))],
                                  ready |-> all_pages_from_pool(thr[t].pages)
                                     \/ ion_buffer_sync_force(thr[t].flags),
                                  served |-> [k \in 1..Len(thr[t].pages) |->
                                                thr[t].pages[k].served]]]]
    /\ SetWorld(IF tf # "ok" THEN World ELSE clear_runs(World, thr[t].pages))
    /\ UNCHANGED <<mutex, buffers, last, rt, allocs, shr>>

\* one turn of the list walk at err:, or return -ENOMEM at its end
T_Unwind(t) ==
    /\ thr[t].pc = "err"
    /\ IF thr[t].pages = <<>>
       THEN /\ thr' = [thr EXCEPT ![t].pc = "idle"]
            /\ UNCHANGED <<pools, hostOut, nextRun, badFree, bug, page_meta>>
       ELSE /\ MutexOfFree(thr[t].flags, Head(thr[t].pages).order) # 0
                 => mutex[MutexOfFree(thr[t].flags,
                                      Head(thr[t].pages).order)] = 0
            /\ SetWorld(unwind(clear_runs(World, <<Head(thr[t].pages)>>),
                               thr[t].flags, thr[t].pages, 1, 1))
            /\ thr' = [thr EXCEPT ![t].pages = Tail(@)]
    /\ UNCHANGED <<mutex, buffers, last, rt, allocs, shr>>

\* entry of ion_system_heap_free up to for_each_sg
T_Free(t) ==
    /\ thr[t].pc = "idle"
    /\ thr[t].buf.live
    /\ thr[t].ops < MaxThreadOps
    /\ OpsBegun < MaxConcOps
    /\ thr' = [thr EXCEPT ![t] = [@ EXCEPT !.pc = "free", !.k = 1,
                                           !.ops = @ + 1]]
    /\ UNCHANGED <<pools, hostOut, nextRun, badFree, bug, page_meta, mutex,
                   buffers, last, rt, allocs, shr>>

\* one turn of for_each_sg; after the last one, sg_free_table and kfree
T_FreeEntry(t) ==
    /\ thr[t].pc = "free"
    /\ LET b == thr[t].buf
           table == ion_system_heap_map_dma(b)
           k == thr[t].k
       IN /\ MutexOfFree(b.flags, get_order(table.sgl[k].length)) # 0
               => mutex[MutexOfFree(b.flags,
                                    get_order(table.sgl[k].length))] = 0
          /\ SetWorld(free_table(World, b.flags, table,
                                 buffer_zeroed(b.flags), k, k))
          /\ thr' = [thr EXCEPT ![t] =
                       IF k >= table.nents
                       THEN [@ EXCEPT !.pc = "idle", !.buf = IdleThread.buf]
                       ELSE [@ EXCEPT !.k = k + 1]]
    /\ UNCHANGED <<mutex, buffers, last, rt, allocs, shr>>

\* the host's memory-pressure hook on pool i
Shrink(i, target) ==
    /\ mutex[i] = 0
    /\ PoolCount(i) > 0
    /\ SetWorld(ion_page_pool_shrink(World, i, target, 0))
    /\ UNCHANGED <<thr, mutex, buffers, last, rt, allocs, shr>>

NextConc ==
    \/ \E t \in Threads, size \in ConcSizes, flags \in ConcFlagSets :
          T_Allocate(t, size, flags)
    \/ \E t \in Threads : T_Lock(t)
    \/ \E t \in Threads : T_Inspect(t)
    \/ \E t \in Threads, hostfails \in BOOLEAN : T_AllocPage(t, hostfails)
    \/ \E t \in Threads, tf \in TableOutcomes : T_Table(t, tf)
    \/ \E t \in Threads : T_Unwind(t)
    \/ \E t \in Threads : T_Free(t)
    \/ \E t \in Threads : T_FreeEntry(t)
    \/ \E i \in 1..num_orders, target \in 1..MaxShrink : Shrink(i, target)

SpecConc == Init /\ [][NextConc]_vars

(* ---------------------------------------------------------------------- *)
(* State machine: the shrinker beside the threads.  ion_page_pool_shrink   *)
(* runs in three steps: the host calls it, it takes the pool's mutex, and  *)
(* it scans the stacks and releases the mutex.                             *)
(* ---------------------------------------------------------------------- *)
ShrinkInvoke(i, target) ==
    /\ shr.pc = "idle"
    /\ shr.calls < MaxShrinkCalls
    /\ shr' = [pc |-> "want", pool |-> i, target |-> target,
               calls |-> shr.calls + 1]
    /\ UNCHANGED <<pools, hostOut, nextRun, badFree, bug, page_meta, thr, mutex,
                   buffers, last, rt, allocs>>

ShrinkLock ==
    /\ shr.pc = "want"
    /\ mutex[shr.pool] = 0
    /\ mutex' = [mutex EXCEPT ![shr.pool] = Shrinker]
    /\ shr' = [shr EXCEPT !.pc = "scan"]
    /\ UNCHANGED <<pools, hostOut, nextRun, badFree, bug, page_meta, thr,
                   buffers, last, rt, allocs>>

ShrinkScan ==
    /\ shr.pc = "scan"
    /\ mutex[shr.pool] = Shrinker
    /\ SetWorld(ion_page_pool_shrink(World, shr.pool, shr.target, 0))
    /\ mutex' = [mutex EXCEPT ![shr.pool] = 0]
    /\ shr' = [shr EXCEPT !.pc = "idle"]
    /\ UNCHANGED <<thr, buffers, last, rt, allocs>>

\* the steps of thread t inside a call it has begun
ThreadStep(t) ==
    \/ T_Lock(t)
    \/ T_Inspect(t)
    \/ \E hostfails \in BOOLEAN : T_AllocPage(t, hostfails)
    \/ \E tf \in TableOutcomes : T_Table(t, tf)
    \/ T_Unwind(t)
    \/ T_FreeEntry(t)

NextShrink ==
    \/ \E t \in Threads, size \in ShrinkSizes, flags \in ShrinkFlagSets :
          T_Allocate(t, size, flags)
    \/ \E t \in Threads : T_Lock(t)
    \/ \E t \in Threads : T_Inspect(t)
    \/ \E t \in Threads, hostfails \in BOOLEAN : T_AllocPage(t, hostfails)
    \/ \E t \in Threads, tf \in TableOutcomes : T_Table(t, tf)
    \/ \E t \in Threads : T_Unwind(t)
    \/ \E t \in Threads : T_Free(t)
    \/ \E t \in Threads : T_FreeEntry(t)
    \/ \E i \in 1..num_orders, target \in 1..MaxShrink : ShrinkInvoke(i, target)
    \/ ShrinkLock
    \/ ShrinkScan

\* every thread inside a call goes on running, and so does the shrinker
FairShrink ==
    /\ \A t \in Threads : WF_vars(ThreadStep(t))
    /\ WF_vars(ShrinkLock)
    /\ WF_vars(ShrinkScan)

SpecShrink == Init /\ [][NextShrink]_vars /\ FairShrink

(* ---------------------------------------------------------------------- *)
(* Derived views of a state                                                *)
(* ---------------------------------------------------------------------- *)
LiveBuffers == { b \in 1..MaxBuffers : buffers[b].live }

\* byte length of entry k of a table; an entry never written is all zero
EntryLength(t, k) == IF k <= Len(t.sgl) THEN t.sgl[k].length ELSE 0

RECURSIVE SumLengths(_, _, _)
SumLengths(t, lo, hi) ==
    IF lo > hi THEN 0
    ELSE IF lo = hi THEN EntryLength(t, lo)
    ELSE LET mid == (lo + hi) \div 2
         IN SumLengths(t, lo, mid) + SumLengths(t, mid + 1, hi)

TableBytes(t) == SumLengths(t, 1, t.nents)

EntryOrder(t, k) == get_order(EntryLength(t, k))

PoolEntries(pp, i) ==
    { pp[i].high_stack[k] : k \in 1..Len(pp[i].high_stack) }
      \cup { pp[i].low_stack[k] : k \in 1..Len(pp[i].low_stack) }

\* the pages a table's entries cover
TablePages(t) ==
    UNION { PagesOf(t.sgl[k].page, t.sgl[k].length \div PAGE_SIZE) :
              k \in 1..Len(t.sgl) }

\* every place that holds pages, with the pages it holds
HeldInTables(bb) ==
    UNION { { [place |-> <<"table", b, k>>,
               pages |-> PagesOf(bb[b].priv_virt.sgl[k].page,
                                 bb[b].priv_virt.sgl[k].length \div PAGE_SIZE)] :
              k \in 1..Len(bb[b].priv_virt.sgl) } :
            b \in { c \in 1..MaxBuffers : bb[c].live } }
HeldInPools(pp) ==
    UNION { { [place |-> <<"high", i, k>>,
               pages |-> PagesOf(pp[i].high_stack[k].page, Pow2(orders[i]))] :
              k \in 1..Len(pp[i].high_stack) }
            \cup
            { [place |-> <<"low", i, k>>,
               pages |-> PagesOf(pp[i].low_stack[k].page, Pow2(orders[i]))] :
              k \in 1..Len(pp[i].low_stack) } :
            i \in 1..num_orders }
Held(pp, bb) == HeldInTables(bb) \cup HeldInPools(pp)

\* the pages acquired from the host and not yet released to it
OutPages(out) == UNION { PagesOf(blk.page, Pow2(blk.order)) : blk \in out }

TaggedPages(H) == UNION { { <<h.place, pg>> : pg \in h.pages } : h \in H }
AllPages(H) == UNION { h.pages : h \in H }

(* ---------------------------------------------------------------------- *)
(* Properties                                                              *)
(* ---------------------------------------------------------------------- *)

\* C1 (size fidelity): the byte lengths of the entries of an allocated
\* buffer's scatter/gather table add up to PAGE_ALIGN of the requested size,
\* whatever the flags and whichever host allocations failed.
C1_SizeFidelity ==
    \A b \in LiveBuffers :
        TableBytes(buffers[b].priv_virt) = PAGE_ALIGN(buffers[b].size)

\* a 64 KiB + 1 byte request, padded to 17 pages, whose order-4 attempt
\* failed and which is made of 17 single pages
C1_Witness ==
    \E b \in LiveBuffers :
        /\ buffers[b].size = 65537
        /\ ~ion_buffer_fault_user_mappings(buffers[b].flags)
        /\ buffers[b].priv_virt.nents = 17

\* C2 (pack monotonicity): in the table of an allocated buffer the orders
\* of the entries never increase with the position in the table.
C2_PackMonotone ==
    \A b \in LiveBuffers :
        \A k \in 1..(buffers[b].priv_virt.nents - 1) :
            EntryOrder(buffers[b].priv_virt, k)
                >= EntryOrder(buffers[b].priv_virt, k + 1)

\* an order-8 run followed by 17 single pages: the order-4 attempt failed
\* once and order 4 was not tried again although 16 pages were still wanted
C2_Witness ==
    \E b \in LiveBuffers :
        /\ ~ion_buffer_fault_user_mappings(buffers[b].flags)
        /\ buffers[b].priv_virt.nents = 18
        /\ EntryOrder(buffers[b].priv_virt, 1) = 8
        /\ EntryOrder(buffers[b].priv_virt, 2) = 0

\* C3 (conservation): between operations every page acquired from the host
\* and not released to it is held in exactly one place (an entry of a live
\* buffer's table or an entry of a pool stack), nothing else is held, and
\* nothing was released that the host did not consider allocated.
C3_Conservation ==
    LET H == Held(pools, buffers) IN
    /\ AllPages(H) = OutPages(hostOut)
    /\ Cardinality(TaggedPages(H)) = Cardinality(AllPages(H))
    /\ ~badFree

\* a live buffer beside a non-empty pool, after an allocation that failed
\* and unwound
C3_Witness ==
    /\ LiveBuffers # {}
    /\ \E i \in 1..num_orders : Counts(pools)[i] > 0
    /\ allocs = 2

\* C4 (pool-served pages are zero): every run on a pool stack has all its
\* bytes zero.
C4_PoolPagesZero ==
    \A i \in 1..num_orders : \A e \in PoolEntries(pools, i) : e.zero

\* C5: in every interleaving, a buffer without SYNC_FORCE whose readiness is
\* latched when allocate returns consists only of runs that were served from
\* a pool stack.
C5_ReadyOnlyIfServed ==
    \A t \in Threads :
       (thr[t].buf.live /\ thr[t].buf.ready
          /\ ~ion_buffer_sync_force(thr[t].buf.flags))
       => \A k \in 1..Len(thr[t].buf.served) : thr[t].buf.served[k]

\* C6 (readiness, sequential use): a buffer allocated without SYNC_FORCE has
\* its readiness latched at return exactly when every one of its runs was
\* served from a pool stack.
C6_ReadyIffFromPool ==
    \A b \in LiveBuffers :
        ~ion_buffer_sync_force(buffers[b].flags) =>
            (buffers[b].ready <=>
                \A k \in 1..Len(buffers[b].served) : buffers[b].served[k])

\* a buffer latched ready without SYNC_FORCE
C6_Witness ==
    \E b \in LiveBuffers :
        /\ ~ion_buffer_sync_force(buffers[b].flags)
        /\ buffers[b].ready

RoundTripFlags(flags) ==
    ~ion_buffer_cached(flags) /\ ~ion_buffer_fault_user_mappings(flags)

C8_FaultFreeBypassesPools ==
    [][(last'.op = "free" /\ ion_buffer_fault_user_mappings(last'.flags))
          => Counts(pools') = Counts(pools)]_vars

\* C9 (cached bypass): an allocate or a free of a CACHED buffer leaves every
\* pool as it was; a failed allocate gives back to the host all it took, and
\* a free gives every page of the buffer back to the host.
C9_CachedBypass ==
    [][(last'.op # "none" /\ ion_buffer_cached(last'.flags)) =>
          /\ pools' = pools
          /\ badFree' = badFree
          /\ last'.ret = "ENOMEM" => hostOut' = hostOut
          /\ last'.op = "free" =>
                TablePages(buffers[last'.buf].priv_virt)
                    \cap OutPages(hostOut') = {}]_vars

\* a cached buffer was allocated and freed while a pool held runs
C9_Witness ==
    /\ last.op = "free"
    /\ ion_buffer_cached(last.flags)
    /\ \E i \in 1..num_orders : Counts(pools)[i] > 0

\* C10 (pool order provenance): every entry of the pool of order o is the
\* first page of a run the host handed out as a run of order o.
C10_PoolProvenance ==
    \A i \in 1..num_orders : \A e \in PoolEntries(pools, i) :
        e.page.off = 0 /\ e.page.obtained = orders[i]

\* the orders of a table's entries, in table position
TableOrders(t) == [k \in 1..t.nents |-> EntryOrder(t, k)]

\* n copies of the order o
Repeat(o, n) == [k \in 1..n |-> o]

\* the decomposition of P pages over the order set, largest first
GreedyOrders(P) ==
    Repeat(8, P \div 256) \o Repeat(4, (P % 256) \div 16) \o Repeat(0, P % 16)

\* C11 (greedy decomposition): when no host allocation fails, the table of
\* a buffer of P pages allocated without FAULT_USER_MAPPINGS is floor(P/256)
\* entries of order 8, then floor((P mod 256)/16) of order 4, then P mod 16
\* of order 0.
C11_GreedyDecomposition ==
    (last.op = "allocate" /\ last.ret = "0" /\ ~last.failed
        /\ ~ion_buffer_fault_user_mappings(last.flags)) =>
       TableOrders(buffers[last.buf].priv_virt)
          = GreedyOrders(PAGE_ALIGN(last.size) \div PAGE_SIZE)

\* 1 MiB + 64 KiB + 4 KiB allocated without host failure: orders 8, 4, 0
C11_Witness ==
    /\ last.op = "allocate" /\ last.ret = "0" /\ ~last.failed
    /\ ~ion_buffer_fault_user_mappings(last.flags)
    /\ last.size = 1118208
    /\ TableOrders(buffers[last.buf].priv_virt) = <<8, 4, 0>>

\* C12 (order validity): every entry of an allocated buffer's table is
\* written, has offset 0, and has byte length PAGE_SIZE << o for an o of the
\* order set.
C12_OrderValidity ==
    \A b \in LiveBuffers :
       \A k \in 1..buffers[b].priv_virt.nents :
          /\ k <= Len(buffers[b].priv_virt.sgl)
          /\ buffers[b].priv_virt.sgl[k].offset = 0
          /\ \E i \in 1..num_orders :
                buffers[b].priv_virt.sgl[k].length = order_to_size(orders[i])

\* a FAULT_USER_MAPPINGS buffer of 273 pages: the runs of orders 8 and 4
\* are written as single pages
C12_Witness ==
    \E b \in LiveBuffers :
       /\ ion_buffer_fault_user_mappings(buffers[b].flags)
       /\ buffers[b].priv_virt.nents = 273
       /\ Len(buffers[b].served) = 3

\* the pages on the stacks of the pools
PoolPages(pp) ==
    UNION { UNION { PagesOf(e.page, Pow2(orders[i])) : e \in PoolEntries(pp, i) } :
            i \in 1..num_orders }

\* C13 (unwinding): an allocate that returns out-of-memory leaves the buffer
\* as it was (priv_virt not written, readiness not latched, no sync issued),
\* every page it took from the host is on a pool stack or back with the
\* host, and every run it took from a pool is on that pool's stacks again.
C13_FailureUnwinds ==
    [][(last'.op = "allocate" /\ last'.ret = "ENOMEM") =>
          /\ buffers'[last'.buf] = NoBuffer
          /\ OutPages(hostOut' \ hostOut) \subseteq PoolPages(pools')
          /\ \A i \in 1..num_orders :
                PoolEntries(pools, i) \subseteq PoolEntries(pools', i)]_vars

\* a first allocate that obtained runs, failed, and left them on the pools
C13_Witness ==
    /\ last.op = "allocate"
    /\ last.ret = "ENOMEM"
    /\ allocs = 1
    /\ Counts(pools)[2] + Counts(pools)[3] > 1

\* the orders alloc_largest_available may take for size bytes under the cap
\* max_order, other than those from order o upwards
SmallerEligible(o, size, max_order) ==
    { orders[i] : i \in { j \in 1..num_orders :
                            /\ orders[j] < o
                            /\ orders[j] <= max_order
                            /\ order_to_size(orders[j]) <= size } }

MaxOf(S) == CHOOSE x \in S : \A y \in S : y <= x

\* C14 (order fallback): a run allocation that fails is followed, in the same
\* step, by an attempt at the largest smaller order that fits the remaining
\* size; the pack fails only after the last such order failed, and that
\* order is 0.
C14_OrderFallback ==
    last.op = "allocate" =>
       /\ \A j \in 1..Len(last.log) :
             ~last.log[j].ok =>
                LET E == SmallerEligible(last.log[j].order, last.log[j].size,
                                         last.log[j].max_order)
                IN IF E = {}
                   THEN j = Len(last.log) /\ last.exit = "err"
                   ELSE /\ j < Len(last.log)
                        /\ last.log[j + 1].order = MaxOf(E)
                        /\ last.log[j + 1].size = last.log[j].size
       /\ last.exit = "err" =>
             /\ Len(last.log) > 0
             /\ ~last.log[Len(last.log)].ok
             /\ last.log[Len(last.log)].order = 0

\* a pack that took an order-8 run and failed after orders 4 and 0 both
\* failed in the next step
C14_Witness ==
    /\ last.op = "allocate"
    /\ last.exit = "err"
    /\ Len(last.log) = 3
    /\ last.log[1].order = 8 /\ last.log[1].ok
    /\ last.log[2].order = 4 /\ ~last.log[2].ok
    /\ last.log[3].order = 0 /\ ~last.log[3].ok

\* a held pool mutex is held either by a thread that is at the counter
\* inspection of that pool and holds no other, or by the shrinker while it
\* scans that pool
MutexDiscipline ==
    \A i \in 1..num_orders :
       \/ mutex[i] = 0
       \/ /\ mutex[i] \in Threads
          /\ thr[mutex[i]].pc = "inspect"
          /\ order_to_index(orders[thr[mutex[i]].i]) = i
          /\ \A j \in 1..num_orders : mutex[j] = mutex[i] => j = i
       \/ /\ mutex[i] = Shrinker
          /\ shr.pc = "scan"
          /\ shr.pool = i

\* C15 (shrinker progress): the heap holds a pool mutex only for the counter
\* inspection and never two at once, and under fair scheduling a shrink
\* that was invoked takes the pool mutex and completes.
C15_ShrinkerProgress ==
    /\ []MutexDiscipline
    /\ (shr.pc = "want") ~> (shr.pc = "idle")

\* the shrinker waits for a pool mutex that a thread holds
C15_Witness ==
    /\ shr.pc = "want"
    /\ mutex[shr.pool] \in Threads

\* C16 (termination): every allocate leaves the packing loop, through the
\* size test or through a failed allocation, and returns 0 or ENOMEM; each
\* execution of the loop body found size_remaining positive and at least one
\* page below what the execution before it found, and an execution that
\* obtained no run is the last one.
C16_Termination ==
    last.op = "allocate" =>
       /\ last.exit \in {"packed", "err"}
       /\ last.ret \in {"0", "ENOMEM"}
       /\ last.exit = "err" => last.ret = "ENOMEM"
       /\ Len(last.trace) <= PAGE_ALIGN(last.size) \div PAGE_SIZE
       /\ \A j \in 1..Len(last.trace) :
             /\ last.trace[j] > 0
             /\ j > 1 => last.trace[j] <= last.trace[j - 1] - PAGE_SIZE
       /\ last.exit = "packed" =>
             /\ Len(last.trace) > 0
             /\ last.trace[Len(last.trace)] <= Pow2(orders[1]) * PAGE_SIZE

\* an allocate that ran the loop body three times or more and left it
\* through a failed allocation
C16_Witness ==
    /\ last.op = "allocate"
    /\ Len(last.trace) > 2
    /\ last.exit = "err"

\* C17 (BUG unreachable): BUG() in order_to_index has not been reached by
\* any allocate, unwind or free; every order an allocation was attempted
\* with and every order that the length of an entry of a live table
\* reconstructs is in the order set.
C17_BugUnreachable ==
    /\ ~bug
    /\ \A j \in 1..Len(last.log) : order_to_index(last.log[j].order) # -1
    /\ \A b \in LiveBuffers :
          \A k \in 1..Len(buffers[b].priv_virt.sgl) :
             order_to_index(get_order(buffers[b].priv_virt.sgl[k].length)) # -1

\* a non-cached buffer of all three orders was freed into the pools, and a
\* later allocate was unwound
C17_Witness ==
    /\ ~bug
    /\ last.op = "allocate"
    /\ last.ret = "ENOMEM"
    /\ ~ion_buffer_cached(last.flags)
    /\ Len(last.log) > 0
    /\ \A i \in 1..num_orders : Counts(pools)[i] > 0

\* index of the first table entry of run k when every run is split
RECURSIVE RunStart(_, _)
RunStart(runs, k) ==
    IF k = 1 THEN 1 ELSE RunStart(runs, k - 1) + Pow2(runs[k - 1].order)

\* C18 (table shape): after a successful allocate the table has, without
\* FAULT_USER_MAPPINGS, one entry per run in pack order, naming the run's
\* first page with the run's whole length; with FAULT_USER_MAPPINGS it has
\* PAGE_ALIGN(size)/PAGE_SIZE entries of one page each, the pages of each
\* run consecutive and the runs in pack order.
C18_TableShape ==
    (last.op = "allocate" /\ last.ret = "0") =>
       LET t == buffers[last.buf].priv_virt
           runs == last.runs
       IN /\ Len(t.sgl) = t.nents
          /\ IF ~ion_buffer_fault_user_mappings(last.flags)
             THEN /\ t.nents = Len(runs)
                  /\ \A k \in 1..Len(runs) :
                        /\ t.sgl[k].page = runs[k].page
                        /\ t.sgl[k].length = order_to_size(runs[k].order)
             ELSE /\ t.nents = PAGE_ALIGN(last.size) \div PAGE_SIZE
                  /\ \A k \in 1..Len(runs) :
                        LET s == RunStart(runs, k)
                        IN /\ s + Pow2(runs[k].order) - 1 <= t.nents
                           /\ \A j \in 0..(Pow2(runs[k].order) - 1) :
                                 /\ t.sgl[s + j].page = PagePlus(runs[k].page, j)
                                 /\ t.sgl[s + j].length = PAGE_SIZE

\* a split buffer of three runs of different orders was allocated
C18_Witness ==
    /\ last.op = "allocate"
    /\ last.ret = "0"
    /\ ion_buffer_fault_user_mappings(last.flags)
    /\ Len(last.runs) = 3
    /\ last.runs[1].order > last.runs[2].order
    /\ last.runs[2].order > last.runs[3].order
    /\ buffers[last.buf].priv_virt.nents = 273

\* C19 (SYNC_FORCE ordering): a successful allocate with SYNC_FORCE issued a
\* DMA sync when every entry of the table was written and latched readiness
\* after it, and the buffer is ready whatever the labels of its runs; an
\* allocate without SYNC_FORCE issued no DMA sync.
C19_SyncForceOrdering ==
    last.op = "allocate" =>
       IF ion_buffer_sync_force(last.flags)
       THEN last.ret = "0" =>
               /\ \E i, j \in 1..Len(last.events) :
                     /\ i < j
                     /\ last.events[i].ev = "sync"
                     /\ last.events[i].filled
                          = buffers[last.buf].priv_virt.nents
                     /\ last.events[j].ev = "ready"
               /\ \A j \in 1..Len(last.events) :
                     last.events[j].ev = "ready" =>
                        \E i \in 1..(j - 1) : last.events[i].ev = "sync"
               /\ buffers[last.buf].ready
               /\ buffers[last.buf].synced
       ELSE /\ \A i \in 1..Len(last.events) : last.events[i].ev # "sync"
            /\ ~buffers[last.buf].synced

\* a SYNC_FORCE buffer with a run that no pool served was allocated
C19_Witness ==
    /\ last.op = "allocate"
    /\ last.ret = "0"
    /\ ion_buffer_sync_force(last.flags)
    /\ \E k \in 1..Len(buffers[last.buf].served) : ~buffers[last.buf].served[k]
    /\ buffers[last.buf].ready

\* C20 (run side-channel reset): when allocate has returned, with 0 or with
\* ENOMEM, no page has the from-pool bit set or a non-zero recorded order:
\* none of the runs the call obtained, and no page of a table, a pool or
\* the host.
C20_SideChannelReset ==
    last.op = "allocate" =>
       /\ \A k \in 1..Len(last.runs) :
             /\ last.runs[k].page \notin page_meta.frompool
             /\ \A x \in page_meta.private : x[1] # last.runs[k].page
       /\ page_meta = NoMeta

\* an allocate obtained a first run of non-zero order that it labelled as
\* from a pool, and then failed
C20_Witness ==
    /\ last.op = "allocate"
    /\ last.ret = "ENOMEM"
    /\ Len(last.runs) >= 1
    /\ last.runs[1].order # 0
    /\ last.runs[1].from_pool
    /\ page_meta = NoMeta

====
